---------------------------- MODULE Spec2Model ----------------------------
(***************************************************************************)
(* A model of the declarative HTTP request factory of configureService.ts  *)
(* and of the endpoint registry of services.ts.                            *)
(*                                                                         *)
(* Strings are TLA+ strings, handled character by character with Len,      *)
(* SubSeq, Head, Tail and \o.  A JavaScript value is a record              *)
(*   [t |-> tag, n |-> number, s |-> string, o |-> property list]          *)
(* whose tag is "undefined", "null", "number", "string", "object" or       *)
(* "blob"; an object's properties are kept in insertion order, as          *)
(* Object.entries and JSON.stringify see them.                             *)
(***************************************************************************)
EXTENDS Naturals, Sequences, FiniteSets

(***************************************************************************)
(* JavaScript values and the built-ins the source calls.                   *)
(***************************************************************************)
Undefined == [t |-> "undefined", n |-> 0, s |-> "", o |-> <<>>]

Null == [t |-> "null", n |-> 0, s |-> "", o |-> <<>>]

Num(n) == [t |-> "number", n |-> n, s |-> "", o |-> <<>>]

Str(s) == [t |-> "string", n |-> 0, s |-> s, o |-> <<>>]

Obj(entries) == [t |-> "object", n |-> 0, s |-> "", o |-> entries]

Blob(s) == [t |-> "blob", n |-> 0, s |-> s, o |-> <<>>]

Prop(k, v) == [k |-> k, v |-> v]

\* ToBoolean: what `!x`, `x || y` and `if (x)` test.
Truthy(v) ==
  CASE v.t = "undefined" -> FALSE
    [] v.t = "null"      -> FALSE
    [] v.t = "number"    -> v.n # 0
    [] v.t = "string"    -> v.s # ""
    [] OTHER             -> TRUE

\* `a || b`
Or(a, b) == IF Truthy(a) THEN a ELSE b

HasKey(obj, key) == \E i \in 1..Len(obj.o) : obj.o[i].k = key

\* Property read `obj[key]`: undefined when the property is missing.
Get(obj, key) ==
  IF HasKey(obj, key)
    THEN obj.o[CHOOSE i \in 1..Len(obj.o) : obj.o[i].k = key].v
    ELSE Undefined

Digits == <<"0", "1", "2", "3", "4", "5", "6", "7", "8", "9">>

RECURSIVE Decimal(_)
Decimal(n) ==
  IF n < 10 THEN Digits[n + 1] ELSE Decimal(n \div 10) \o Digits[(n % 10) + 1]

\* String(value)
ToString(v) ==
  CASE v.t = "undefined" -> "undefined"
    [] v.t = "null"      -> "null"
    [] v.t = "number"    -> Decimal(v.n)
    [] v.t = "string"    -> v.s
    [] v.t = "blob"      -> "[object Blob]"
    [] OTHER             -> "[object Object]"

\* The printable ASCII characters, in code order from 32 (space) to 126 (~);
\* the grave accent (code 96) cannot be written in a string and is left empty.
Printable ==
  << " ", "!", "\"", "#", "$", "%", "&", "'", "(", ")", "*", "+", ",", "-", ".", "/",
     "0", "1", "2", "3", "4", "5", "6", "7", "8", "9", ":", ";", "<", "=", ">", "?",
     "@", "A", "B", "C", "D", "E", "F", "G", "H", "I", "J", "K", "L", "M", "N", "O",
     "P", "Q", "R", "S", "T", "U", "V", "W", "X", "Y", "Z", "[", "\\", "]", "^", "_",
     "",  "a", "b", "c", "d", "e", "f", "g", "h", "i", "j", "k", "l", "m", "n", "o",
     "p", "q", "r", "s", "t", "u", "v", "w", "x", "y", "z", "{", "|", "}", "~" >>

CharCode(ch) == 31 + CHOOSE i \in 1..Len(Printable) : Printable[i] = ch

HexDigits ==
  <<"0", "1", "2", "3", "4", "5", "6", "7", "8", "9", "A", "B", "C", "D", "E", "F">>

AlphaNum ==
  { Printable[i] : i \in (17..26) \cup (34..59) \cup (66..91) }

\* The characters the regular expression class \w matches.
WordChars == AlphaNum \cup {"_"}

\* The characters encodeURIComponent leaves as they are.
Unreserved == AlphaNum \cup {"-", "_", ".", "!", "~", "*", "'", "(", ")"}

PercentEncode(ch) ==
  "%" \o HexDigits[(CharCode(ch) \div 16) + 1] \o HexDigits[(CharCode(ch) % 16) + 1]

RECURSIVE encodeURIComponent(_)
encodeURIComponent(s) ==
  IF s = "" THEN ""
  ELSE (IF Head(s) \in Unreserved THEN Head(s) ELSE PercentEncode(Head(s)))
         \o encodeURIComponent(Tail(s))

\* Position of the first occurrence of `needle` in `hay`, 0 when there is none.
IndexOf(hay, needle) ==
  LET P == { i \in 1..(Len(hay) + 1 - Len(needle)) :
               SubSeq(hay, i, i + Len(needle) - 1) = needle }
  IN  IF P = {} THEN 0 ELSE CHOOSE i \in P : \A j \in P : i <= j

Contains(hay, needle) == IndexOf(hay, needle) # 0

\* String.prototype.replace with a string pattern: the first occurrence only.
ReplaceFirst(target, pattern, value) ==
  LET i == IndexOf(target, pattern)
  IN  IF i = 0 THEN target
      ELSE SubSeq(target, 1, i - 1) \o value
             \o SubSeq(target, i + Len(pattern), Len(target))

RECURSIVE JSONEscape(_)
JSONEscape(s) ==
  IF s = "" THEN ""
  ELSE (IF Head(s) \in {"\"", "\\"} THEN "\\" \o Head(s) ELSE Head(s))
         \o JSONEscape(Tail(s))

RECURSIVE JSONText(_), JSONMembers(_, _)
\* The members of an object, comma separated; a property whose value is
\* undefined is left out.
JSONMembers(es, first) ==
  IF es = <<>> THEN ""
  ELSE IF Head(es).v.t = "undefined" THEN JSONMembers(Tail(es), first)
  ELSE (IF first THEN "" ELSE ",")
         \o "\"" \o JSONEscape(Head(es).k) \o "\":" \o JSONText(Head(es).v)
         \o JSONMembers(Tail(es), FALSE)

JSONText(v) ==
  CASE v.t = "null"   -> "null"
    [] v.t = "number" -> Decimal(v.n)
    [] v.t = "string" -> "\"" \o JSONEscape(v.s) \o "\""
    [] OTHER          -> "{" \o JSONMembers(v.o, TRUE) \o "}"

\* JSON.stringify(value): undefined for undefined, the JSON text otherwise.
JSONstringify(v) == IF v.t = "undefined" THEN Undefined ELSE Str(JSONText(v))

\* The is-empty package: null and undefined, 0, "" and an object without
\* own properties are empty.
isEmpty(v) ==
  CASE v.t = "undefined" -> TRUE
    [] v.t = "null"      -> TRUE
    [] v.t = "number"    -> v.n = 0
    [] v.t = "string"    -> v.s = ""
    [] v.t = "object"    -> v.o = <<>>
    [] OTHER             -> FALSE

(***************************************************************************)
(* configureService.ts: the pure functions.                                *)
(***************************************************************************)
STRING_OPTIONS_MAP(key) ==
  CASE key = "json"     -> "application/json"
    [] key = "text"     -> "text/plain"
    [] key = "blob"     -> "application/octet-stream"
    [] key = "formData" -> "multipart/form-data"
    [] OTHER            -> "undefined"

\* Longest prefix of s made of \w characters.
RECURSIVE WordRun(_)
WordRun(s) ==
  IF s = "" \/ Head(s) \notin WordChars THEN "" ELSE Head(s) \o WordRun(Tail(s))

\* value.replace(/{(\w+)}/g, (_, key) => query[key]): every {key} token is
\* replaced by the string conversion of query[key].
RECURSIVE handlePreferHeader(_, _)
handlePreferHeader(value, query) ==
  IF value = "" THEN ""
  ELSE IF Head(value) = "{"
    THEN LET key  == WordRun(Tail(value))
             rest == SubSeq(value, Len(key) + 2, Len(value))
         IN  IF key # "" /\ rest # "" /\ Head(rest) = "}"
               THEN ToString(Get(query, key)) \o handlePreferHeader(Tail(rest), query)
               ELSE "{" \o handlePreferHeader(Tail(value), query)
    ELSE Head(value) \o handlePreferHeader(Tail(value), query)

Header(name, value) == [name |-> name, value |-> value]

\* The id token guarded like the access token: no x-id-token for a null one.
createHeaders_IdTokenGuard(options, input, storage) ==
  LET accessToken == storage.accessToken
      idToken     == storage.idToken
      base == << Header("Content-Type",
                        IF options.method = "get" THEN "x-www-form-urlencoded"
                        ELSE STRING_OPTIONS_MAP(options.contentType)),
                 Header("Accept", STRING_OPTIONS_MAP(options.acceptType)) >>
      auth == IF Truthy(accessToken)
                THEN << Header("Authorization", "Bearer " \o ToString(accessToken)) >>
                ELSE << >>
      idt  == IF Truthy(accessToken) /\ Truthy(idToken)
                THEN << Header("x-id-token", ToString(idToken)) >>
                ELSE << >>
  IN  base \o auth \o idt

\* The headers are the list of (name, value) pairs in the order appended.
\* Headers.append converts a null value to the string "null".
createHeaders(options, input, storage) ==
  LET accessToken == storage.accessToken
      idToken     == storage.idToken
      contentType == STRING_OPTIONS_MAP(options.contentType)
      acceptType  == STRING_OPTIONS_MAP(options.acceptType)
      base == << Header("Content-Type",
                        IF options.method = "get" THEN "x-www-form-urlencoded"
                                                  ELSE contentType),
                 Header("Accept", acceptType) >>
      auth == IF Truthy(accessToken)
                THEN << Header("Authorization", "Bearer " \o ToString(accessToken)),
                        Header("x-id-token", ToString(idToken)) >>
                ELSE << >>
      pref == IF Truthy(options.prefer)
                THEN << Header("Prefer",
                               handlePreferHeader(ToString(options.prefer), input.query)) >>
                ELSE << >>
  IN  base \o auth \o pref

\* No emptiness check: an empty body is sent as "{}".
createBody_NoEmptyCheck(input) == JSONstringify(input.body)

createBody(input) ==
  IF isEmpty(input.body) THEN Undefined ELSE JSONstringify(input.body)

\* The RequestInit handed to `new Request`, with the url: the body attribute
\* is undefined when it is not set.
createRequest(configuration) ==
  [ method  |-> configuration.method,
    url     |-> configuration.url,
    headers |-> configuration.headers,
    body    |-> IF Truthy(configuration.body) THEN configuration.body ELSE Undefined ]

\* `new Request(url, init)` throws a TypeError when init carries a body and
\* the method is GET or HEAD (matched without regard to case).
RequestThrows(request) ==
  /\ request.body.t # "undefined"
  /\ request.method \in {"GET", "get", "HEAD", "head"}

\* process.env.AUTH_URL, the fallback base URL.
AUTH_URL == "https://auth.example.com"

\* The prepared options carry no `prefer` property: reading it gives undefined.
prepareOptions(options) ==
  [ name            |-> options.name,
    path            |-> IF options.path # "" THEN options.path ELSE "",
    baseUrl         |-> IF options.baseUrl # "" THEN options.baseUrl ELSE AUTH_URL,
    usesAccessToken |-> (options.usesAccessToken \/ TRUE),
    usesIdToken     |-> (options.usesIdToken \/ TRUE),
    acceptType      |-> IF options.acceptType # "" THEN options.acceptType ELSE "json",
    contentType     |-> IF options.contentType # "" THEN options.contentType ELSE "json",
    method          |-> IF options.method # "" THEN options.method ELSE "POST",
    prefer          |-> Undefined ]

\* Object.entries of an object; the query mappings handled here are objects.
ObjectEntries(v) == IF v.t = "object" THEN v.o ELSE << >>

encodeQuery(entries) ==
  [ i \in 1..Len(entries) |->
      [ k |-> entries[i].k, v |-> encodeURIComponent(ToString(entries[i].v)) ] ]

\* target.replace(`{key}`, value).  The value is percent-encoded, so it holds
\* no "$" and no replacement pattern.
injectVariable(target, key, value) ==
  ReplaceFirst(target, "{" \o key \o "}", value)

\* final.match(`{key}`) compiles `{key}` as a regular expression; for a key
\* that is an identifier it matches exactly the literal token {key}.
handleQueryPiece(final, entry) ==
  LET hasPieceMatch == Contains(final, "{" \o entry.k \o "}")
      queryString   == final \o "&" \o entry.k \o "=" \o entry.v
  IN  IF hasPieceMatch THEN injectVariable(final, entry.k, entry.v) ELSE queryString

RECURSIVE Reduce(_, _)
Reduce(entries, acc) ==
  IF entries = << >> THEN acc
  ELSE Reduce(Tail(entries), handleQueryPiece(acc, Head(entries)))

createUrl(options, input) ==
  LET initialUrl          == options.baseUrl \o options.path
      queryEntries        == ObjectEntries(input.query)
      encodedQueryEntries == encodeQuery(queryEntries)
  IN  Reduce(encodedQueryEntries, initialUrl)

EmptyObject == Obj(<< >>)

\* The method compared with the lower-case literal, as createHeaders does.
prepareInput_LowerCaseGet(options, input) ==
  IF ~Truthy(Get(input, "body")) /\ ~Truthy(Get(input, "query"))
    THEN IF options.method = "get"
           THEN [ query |-> input, body |-> EmptyObject ]
           ELSE [ query |-> EmptyObject, body |-> input ]
    ELSE [ body  |-> Or(Get(input, "body"), EmptyObject),
           query |-> Or(Get(input, "query"), EmptyObject) ]

prepareInput(options, input) ==
  IF ~Truthy(Get(input, "body")) /\ ~Truthy(Get(input, "query"))
    THEN IF options.method = "GET"
           THEN [ query |-> input, body |-> EmptyObject ]
           ELSE [ query |-> EmptyObject, body |-> input ]
    ELSE [ body  |-> Or(Get(input, "body"), EmptyObject),
           query |-> Or(Get(input, "query"), EmptyObject) ]

\* The values the JSON bodies of the modelled responses decode to.
JsonValues ==
  { Null,
    Obj(<< Prop("id", Num(1)) >>),
    Obj(<< Prop("msg", Str("not found")) >>) }

\* response.json(): the value whose JSON text the body is; it rejects when
\* the body is no JSON text.
JSONparse(text) ==
  IF \E v \in JsonValues : JSONText(v) = text
    THEN [ ok |-> TRUE, value |-> CHOOSE v \in JsonValues : JSONText(v) = text ]
    ELSE [ ok |-> FALSE, value |-> Undefined ]

\* The decoder of each accept type, applied to a response: ok is FALSE when
\* the decoder's promise rejects.  No modelled body is a multipart form.
RESPONSE_PROCESSORS(key, response) ==
  CASE key = "json"     -> JSONparse(response.body)
    [] key = "text"     -> [ ok |-> TRUE, value |-> Str(response.body) ]
    [] key = "blob"     -> [ ok |-> TRUE, value |-> Blob(response.body) ]
    [] OTHER            -> [ ok |-> FALSE, value |-> Undefined ]

getResponseProcessor(options, response) ==
  RESPONSE_PROCESSORS(options.acceptType, response)

\* The threshold one too high: status 400 would count as a success.
ErrorOf_Above400(status, output) == IF status > 400 THEN output ELSE Null

\* const error = response.status > 399 ? output : null
ErrorOf(status, output) == IF status > 399 THEN output ELSE Null

\* const data = response.status < 400 ? output : null
DataOf(status, output) == IF status < 400 THEN output ELSE Null

(***************************************************************************)
(* services.ts: the endpoint registry.                                     *)
(***************************************************************************)
Descriptor(name, baseUrl, path, method, usesAccessToken, usesIdToken, acceptType, contentType, prefer) ==
  [ name |-> name, baseUrl |-> baseUrl, path |-> path, method |-> method,
    usesAccessToken |-> usesAccessToken, usesIdToken |-> usesIdToken,
    acceptType |-> acceptType, contentType |-> contentType, prefer |-> prefer ]

getCustomers ==
  Descriptor("getCustomers", "https://example.com", "/api/customers/{customerId}",
             "GET", TRUE, TRUE, "json", "json", Str("example=populated"))

getCustomerProfile ==
  Descriptor("getCustomerProfile", "https://example.com",
             "/api/customers/{customerId}/location/{locationId}",
             "GET", TRUE, TRUE, "json", "json", Str("example={customerId}"))

editCustomerProfile ==
  Descriptor("editCustomerProfile", "https://example.com", "/api/customers/{customerId}",
             "PATCH", TRUE, TRUE, "json", "json", Str("example={customerId}"))

logIn ==
  Descriptor("logIn", "https://example.com", "/api/login",
             "POST", FALSE, FALSE, "json", "json", Undefined)

logOut ==
  Descriptor("logOut", "https://example.com", "/api/logout",
             "POST", TRUE, TRUE, "json", "json", Undefined)

requestPasswordReset ==
  Descriptor("requestPasswordReset", "https://example.com", "/api/password-reset/request",
             "POST", FALSE, FALSE, "text", "json", Undefined)

resetPassword ==
  Descriptor("resetPassword", "https://example.com", "/api/password-reset/confirm",
             "POST", FALSE, FALSE, "text", "json", Undefined)

Registry ==
  { getCustomers, getCustomerProfile, editCustomerProfile, logIn, logOut,
    requestPasswordReset, resetPassword }

(***************************************************************************)
(* The inputs the calls are drawn from.                                    *)
(***************************************************************************)
\* Descriptors createService accepts that the registry does not hold: one
\* placeholder, the same placeholder twice, a lower-case method, and a
\* descriptor that leaves method and types to prepareOptions' defaults.
OtherDescriptors ==
  { Descriptor("getX", "https://example.com", "/api/x/{id}",
               "GET", TRUE, TRUE, "json", "json", Undefined),
    Descriptor("getXofX", "https://example.com", "/api/{id}/x/{id}",
               "GET", TRUE, TRUE, "json", "json", Undefined),
    Descriptor("ping", "https://example.com", "/api/ping",
               "get", FALSE, FALSE, "blob", "text", Undefined),
    Descriptor("putX", "https://example.com", "/api/x/{id}",
               "", FALSE, FALSE, "", "formData", Str("id={id}")) }

Descriptors == Registry \cup OtherDescriptors

QueryParts ==
  { << >>,
    << Prop("query", Null) >>,
    << Prop("query", EmptyObject) >>,
    << Prop("query", Obj(<< Prop("customerId", Num(5)) >>)) >>,
    << Prop("query", Obj(<< Prop("id", Num(5)), Prop("foo", Str("a b")) >>)) >> }

BodyParts ==
  { << >>,
    << Prop("body", Null) >>,
    << Prop("body", EmptyObject) >>,
    << Prop("body", Obj(<< Prop("a", Num(1)) >>)) >> }

FlatParts ==
  { << >>,
    << Prop("customerId", Num(5)), Prop("locationId", Num(7)) >>,
    << Prop("id", Num(5)), Prop("foo", Str("a b")) >> }

\* Raw inputs: an optional `query` key, an optional `body` key, other fields.
Inputs == { Obj(q \o b \o f) : q \in QueryParts, b \in BodyParts, f \in FlatParts }

\* What sessionStorage.getItem returns for the two tokens: null when the key
\* is not stored, the stored string (which may be empty) otherwise.
Storages ==
  [ accessToken : {Null, Str(""), Str("tok")}, idToken : {Null, Str("idt")} ]

Response(status, body) == [ status |-> status, body |-> body ]

Responses ==
  { Response(st, b) : st \in {200, 399, 400, 404},
                      b \in {"null", "{\"id\":1}", "{\"msg\":\"not found\"}", "<html>"} }

\* The smaller sets the concurrent calls are drawn from.
SomeDescriptors == { getCustomers, requestPasswordReset }

SomeInputs ==
  { Obj(<< Prop("customerId", Num(5)) >>),
    Obj(<< Prop("body", Obj(<< Prop("a", Num(1)) >>)) >>) }

SomeStorages ==
  { [ accessToken |-> Null, idToken |-> Null ],
    [ accessToken |-> Str("tok"), idToken |-> Str("idt") ] }

SomeResponses == { Response(200, "{\"id\":1}"), Response(404, "<html>") }

\* The number of invocations that may be in flight together.
MaxCalls == 2

Calls == 1..MaxCalls

(***************************************************************************)
(* The state: the token store, and per invocation the position of the      *)
(* async functions and the values their closures hold.                     *)
(***************************************************************************)
VARIABLES
  sessionStorage,  \* the two session tokens
  pc,              \* "idle", "fetch", "decode", "wrapper", "returned", "rejected"
  options,         \* the descriptor createService was given
  input,           \* the raw input of the call
  prepared,        \* preparedInput
  request,         \* what createRequest assembled
  fetches,         \* how many times fetch was called for the invocation
  response,        \* the transport's response
  result,          \* the {error, data, response} the inner call returned
  failure,         \* the failure raised inside the invocation, "none" if none
  suspensions      \* how many times the invocation has yielded to the event loop

vars ==
  << sessionStorage, pc, options, input, prepared, request, fetches, response,
     result, failure, suspensions >>

NoOptions == Descriptor("", "", "", "", FALSE, FALSE, "", "", Undefined)

NoPrepared == [ query |-> Undefined, body |-> Undefined ]

NoRequest == [ method |-> "", url |-> "", headers |-> << >>, body |-> Undefined ]

NoResponse == Response(0, "")

NoOutput == [ error |-> Undefined, data |-> Undefined, response |-> NoResponse ]

InitCalls(storages) ==
  /\ sessionStorage \in storages
  /\ pc = [c \in Calls |-> "idle"]
  /\ options = [c \in Calls |-> NoOptions]
  /\ input = [c \in Calls |-> Undefined]
  /\ prepared = [c \in Calls |-> NoPrepared]
  /\ request = [c \in Calls |-> NoRequest]
  /\ fetches = [c \in Calls |-> 0]
  /\ response = [c \in Calls |-> NoResponse]
  /\ result = [c \in Calls |-> NoOutput]
  /\ failure = [c \in Calls |-> "none"]
  /\ suspensions = [c \in Calls |-> 0]

(***************************************************************************)
(* createService / createServiceCall: one action per turn of the event     *)
(* loop in which an invocation runs.                                       *)
(***************************************************************************)
\* The call up to its first await: the wrapper logs and calls the inner
\* function, which prepares the input, assembles headers, url and body,
\* builds the request and calls fetch; both then wait.  When `new Request`
\* throws, fetch is not reached and the inner promise is rejected.
Call(c, descriptors, inputs) ==
  /\ pc[c] = "idle"
  /\ \E descriptor \in descriptors, raw \in inputs :
       LET preparedOptions == prepareOptions(descriptor)
           preparedInput   == prepareInput(preparedOptions, raw)
           headers         == createHeaders(preparedOptions, preparedInput, sessionStorage)
           url             == createUrl(preparedOptions, preparedInput)
           body            == createBody(preparedInput)
           requestOptions  == [ method  |-> preparedOptions.method, url |-> url,
                                headers |-> headers, body |-> body ]
           built           == createRequest(requestOptions)
       IN  /\ options' = [options EXCEPT ![c] = descriptor]
           /\ input' = [input EXCEPT ![c] = raw]
           /\ prepared' = [prepared EXCEPT ![c] = preparedInput]
           /\ request' = [request EXCEPT ![c] = built]
           /\ IF RequestThrows(built)
                THEN /\ failure' = [failure EXCEPT ![c] = "TypeError"]
                     /\ pc' = [pc EXCEPT ![c] = "wrapper"]
                     /\ UNCHANGED fetches
                ELSE /\ fetches' = [fetches EXCEPT ![c] = @ + 1]
                     /\ pc' = [pc EXCEPT ![c] = "fetch"]
                     /\ UNCHANGED failure
  /\ suspensions' = [suspensions EXCEPT ![c] = @ + 1]
  /\ UNCHANGED << sessionStorage, response, result >>

\* The decoder run to completion in the turn the transport resolves, as if
\* `processor(response)` were not awaited.
FetchResolve_DecodeInline(c, responses) ==
  /\ pc[c] = "fetch"
  /\ \E r \in responses :
       LET decoded == getResponseProcessor(prepareOptions(options[c]), r)
       IN  /\ response' = [response EXCEPT ![c] = r]
           /\ IF decoded.ok
                THEN /\ result' = [result EXCEPT ![c] =
                                     [ error    |-> ErrorOf(r.status, decoded.value),
                                       data     |-> DataOf(r.status, decoded.value),
                                       response |-> r ]]
                     /\ UNCHANGED failure
                ELSE /\ failure' = [failure EXCEPT ![c] = "DecodeError"]
                     /\ UNCHANGED result
  /\ pc' = [pc EXCEPT ![c] = "wrapper"]
  /\ suspensions' = [suspensions EXCEPT ![c] = @ + 1]
  /\ UNCHANGED << sessionStorage, options, input, prepared, request, fetches >>

\* `await fetch(request)` resolves: the decoder is selected and called, and
\* the inner function waits for it.
FetchResolve(c, responses) ==
  /\ pc[c] = "fetch"
  /\ \E r \in responses : response' = [response EXCEPT ![c] = r]
  /\ pc' = [pc EXCEPT ![c] = "decode"]
  /\ suspensions' = [suspensions EXCEPT ![c] = @ + 1]
  /\ UNCHANGED << sessionStorage, options, input, prepared, request, fetches,
                  result, failure >>

\* A rejected transport call tried once more before the failure surfaces.
FetchReject_Retry(c) ==
  /\ pc[c] = "fetch"
  /\ IF fetches[c] < 2
       THEN /\ fetches' = [fetches EXCEPT ![c] = @ + 1]
            /\ UNCHANGED << pc, failure >>
       ELSE /\ failure' = [failure EXCEPT ![c] = "NetworkError"]
            /\ pc' = [pc EXCEPT ![c] = "wrapper"]
            /\ UNCHANGED fetches
  /\ suspensions' = [suspensions EXCEPT ![c] = @ + 1]
  /\ UNCHANGED << sessionStorage, options, input, prepared, request, response, result >>

\* `await fetch(request)` rejects: nothing catches it, the inner promise is
\* rejected.
FetchReject(c) ==
  /\ pc[c] = "fetch"
  /\ failure' = [failure EXCEPT ![c] = "NetworkError"]
  /\ pc' = [pc EXCEPT ![c] = "wrapper"]
  /\ suspensions' = [suspensions EXCEPT ![c] = @ + 1]
  /\ UNCHANGED << sessionStorage, options, input, prepared, request, fetches,
                  response, result >>

\* `await processor(response)` resolves: the output is classified by the
\* status code and the inner function returns.
DecodeResolve(c) ==
  LET decoded == getResponseProcessor(prepareOptions(options[c]), response[c])
      output  == decoded.value
      error   == ErrorOf(response[c].status, output)
      data    == DataOf(response[c].status, output)
  IN  /\ pc[c] = "decode"
      /\ decoded.ok
      /\ result' = [result EXCEPT ![c] =
                      [ error |-> error, data |-> data, response |-> response[c] ]]
      /\ pc' = [pc EXCEPT ![c] = "wrapper"]
      /\ suspensions' = [suspensions EXCEPT ![c] = @ + 1]
      /\ UNCHANGED << sessionStorage, options, input, prepared, request, fetches,
                      response, failure >>

\* `await processor(response)` rejects: nothing catches it.
DecodeReject(c) ==
  LET decoded == getResponseProcessor(prepareOptions(options[c]), response[c])
  IN  /\ pc[c] = "decode"
      /\ ~decoded.ok
      /\ failure' = [failure EXCEPT ![c] = "DecodeError"]
      /\ pc' = [pc EXCEPT ![c] = "wrapper"]
      /\ suspensions' = [suspensions EXCEPT ![c] = @ + 1]
      /\ UNCHANGED << sessionStorage, options, input, prepared, request, fetches,
                      response, result >>

\* The wrapper's `await serviceCall(input)` settles: it returns the inner
\* call's result (console.assert only logs), or rejects with its failure.
WrapperResume(c) ==
  /\ pc[c] = "wrapper"
  /\ pc' = [pc EXCEPT ![c] = IF failure[c] = "none" THEN "returned" ELSE "rejected"]
  /\ UNCHANGED << sessionStorage, options, input, prepared, request, fetches,
                  response, result, failure, suspensions >>

\* Concurrent invocations, drawn from the smaller sets.
Init == InitCalls(SomeStorages)

Next ==
  \E c \in Calls :
    \/ Call(c, SomeDescriptors, SomeInputs)
    \/ FetchResolve(c, SomeResponses)
    \/ FetchReject(c)
    \/ DecodeResolve(c)
    \/ DecodeReject(c)
    \/ WrapperResume(c)

Spec == Init /\ [][Next]_vars

\* One invocation, drawn from every descriptor, input, token store and response.
InitOne == InitCalls(Storages)

NextOne ==
  \/ Call(1, Descriptors, Inputs)
  \/ FetchResolve(1, Responses)
  \/ FetchReject(1)
  \/ DecodeResolve(1)
  \/ DecodeReject(1)
  \/ WrapperResume(1)

SpecOne == InitOne /\ [][NextOne]_vars

(***************************************************************************)
(* Properties of the request factory, by claim.                            *)
(***************************************************************************)
NonNull(v) == v.t \notin {"null", "undefined"}

HeaderValues(headers, name) ==
  { headers[i].value : i \in { j \in 1..Len(headers) : headers[j].name = name } }

\* The invocation has run its synchronous part: the request is assembled.
Assembled(c) == pc[c] # "idle"

\* The request was handed to the transport.
Issued(c) == fetches[c] > 0

\* The decoded payload of the response the invocation received.
Decoded(c) == RESPONSE_PROCESSORS(prepareOptions(options[c]).acceptType, response[c])

\* C1: whenever a call returns, exactly one of the result's error and data
\* fields is non-null, for every status code and every decoded payload.
C1_ExactlyOneOfErrorData ==
  \A c \in Calls :
    pc[c] = "returned" => (NonNull(result[c].error) # NonNull(result[c].data))

\* C2: when decoding succeeds the call returns and does not throw; with a
\* status code >= 400 error is the decoded payload and data is null, with a
\* status code < 400 data is the decoded payload and error is null; response
\* is the raw transport response.
C2_ResponseClassification ==
  \A c \in Calls :
    /\ (pc[c] = "rejected" /\ response[c] # NoResponse) => ~Decoded(c).ok
    /\ pc[c] = "returned" =>
         /\ Decoded(c).ok
         /\ result[c].response = response[c]
         /\ IF response[c].status >= 400
              THEN result[c].error = Decoded(c).value /\ result[c].data = Null
              ELSE result[c].data = Decoded(c).value /\ result[c].error = Null

\* C2 witness: a call returned a status-400 response as its error.
C2_Witness ==
  \E c \in Calls :
    /\ pc[c] = "returned"
    /\ response[c].status = 400
    /\ result[c].error = Obj(<< Prop("msg", Str("not found")) >>)
    /\ result[c].data = Null

\* C3: every request issued for a descriptor that declares a prefer template
\* carries a Prefer header whose value is the template rendered against the
\* prepared query; a descriptor without prefer produces no Prefer header.
C3_PreferHeaderSent ==
  \A c \in Calls :
    Issued(c) =>
      HeaderValues(request[c].headers, "Prefer") =
        IF options[c].prefer.t = "string"
          THEN { handlePreferHeader(options[c].prefer.s, prepared[c].query) }
          ELSE { }

\* C4 as stated: a non-null access token gives both the Authorization and
\* the x-id-token header, whatever the descriptor's flags; a null access
\* token gives neither.
C4_NonNullTokenSendsHeaders ==
  \A c \in Calls :
    Assembled(c) =>
      IF sessionStorage.accessToken # Null
        THEN /\ HeaderValues(request[c].headers, "Authorization")
                  = { "Bearer " \o sessionStorage.accessToken.s }
             /\ HeaderValues(request[c].headers, "x-id-token") # { }
        ELSE /\ HeaderValues(request[c].headers, "Authorization") = { }
             /\ HeaderValues(request[c].headers, "x-id-token") = { }

\* C4 as amended: a non-empty access token gives `Authorization: Bearer
\* <accessToken>` and an x-id-token header holding the id token's string
\* form, whatever the descriptor's flags; a null or empty access token gives
\* neither header.
C4_TokenHeaders ==
  \A c \in Calls :
    Assembled(c) =>
      IF sessionStorage.accessToken \notin {Null, Str("")}
        THEN /\ HeaderValues(request[c].headers, "Authorization")
                  = { "Bearer " \o sessionStorage.accessToken.s }
             /\ HeaderValues(request[c].headers, "x-id-token")
                  = { IF sessionStorage.idToken = Null THEN "null"
                      ELSE sessionStorage.idToken.s }
        ELSE /\ HeaderValues(request[c].headers, "Authorization") = { }
             /\ HeaderValues(request[c].headers, "x-id-token") = { }

\* C4 witness: a descriptor that declares usesAccessToken false was called
\* with a token stored and no id token, and the request carries both headers.
C4_Witness ==
  \E c \in Calls :
    /\ Issued(c)
    /\ ~options[c].usesAccessToken
    /\ sessionStorage = [ accessToken |-> Str("tok"), idToken |-> Null ]
    /\ HeaderValues(request[c].headers, "Authorization") = { "Bearer tok" }
    /\ HeaderValues(request[c].headers, "x-id-token") = { "null" }

IsFlat(raw) == ~HasKey(raw, "query") /\ ~HasKey(raw, "body")

\* C5: a raw input with neither a query nor a body key goes whole into query
\* (body empty) for a GET descriptor and whole into body (query empty) for
\* every other method; a non-GET call with a flat input leaves the url at
\* baseUrl + path.
C5_FlatInputRouting ==
  \A c \in Calls :
    (Assembled(c) /\ IsFlat(input[c])) =>
      IF options[c].method = "GET"
        THEN prepared[c] = [ query |-> input[c], body |-> Obj(<< >>) ]
        ELSE /\ prepared[c] = [ query |-> Obj(<< >>), body |-> input[c] ]
             /\ request[c].url = options[c].baseUrl \o options[c].path

\* C5 witness: a PATCH descriptor whose path holds {customerId} was called
\* with a flat input that has customerId, and the placeholder is still there.
C5_Witness ==
  \E c \in Calls :
    /\ Issued(c)
    /\ options[c].method = "PATCH"
    /\ IsFlat(input[c])
    /\ HasKey(input[c], "customerId")
    /\ request[c].url = "https://example.com/api/customers/{customerId}"
    /\ request[c].body = Str("{\"customerId\":5,\"locationId\":7}")

\* C6: after the fold of createUrl no {key} token remains in the url for
\* any key of the query mapping; an empty query mapping gives baseUrl + path;
\* no "?" is emitted; /api/x/{id} with {id: 5, foo: "a b"} gives
\* <baseUrl>/api/x/5&foo=a%20b.
C6_NoPlaceholderLeft ==
  \A c \in Calls :
    Assembled(c) =>
      LET seed  == options[c].baseUrl \o options[c].path
          query == prepared[c].query
      IN  /\ \A i \in 1..Len(query.o) :
               ~Contains(request[c].url, "{" \o query.o[i].k \o "}")
          /\ query.o = << >> => request[c].url = seed
          /\ ~Contains(request[c].url, "?")
          /\ ( /\ options[c].path = "/api/x/{id}"
               /\ query = Obj(<< Prop("id", Num(5)), Prop("foo", Str("a b")) >>) )
               => request[c].url = options[c].baseUrl \o "/api/x/5&foo=a%20b"

\* C7: the request has no body attribute exactly when the prepared body is
\* empty, and otherwise its body is the JSON text of the prepared body
\* ({a: 1} gives {"a":1}), whatever the content type and the method.
C7_BodySerializer ==
  \A c \in Calls :
    Assembled(c) =>
      /\ (request[c].body = Undefined) <=> (prepared[c].body.o = << >>)
      /\ prepared[c].body.o # << >> => request[c].body = Str(JSONText(prepared[c].body))
      /\ prepared[c].body = Obj(<< Prop("a", Num(1)) >>)
           => request[c].body = Str("{\"a\":1}")

\* C7 witness: a descriptor whose content type is formData issued a request
\* whose body is the JSON text {"a":1}.
C7_Witness ==
  \E c \in Calls :
    /\ Issued(c)
    /\ options[c].contentType = "formData"
    /\ prepared[c].body = Obj(<< Prop("a", Num(1)) >>)
    /\ request[c].body = Str("{\"a\":1}")

\* C8: when the transport or the decoder rejects, the call rejects with that
\* failure and returns no ServiceOutput; the failure is not turned into an
\* error field, and fetch is called at most once per invocation.
C8_FailurePropagation ==
  \A c \in Calls :
    /\ fetches[c] <= 1
    /\ failure[c] # "none" => (pc[c] \in {"wrapper", "rejected"} /\ result[c] = NoOutput)
    /\ pc[c] = "rejected" => failure[c] # "none"
    /\ failure[c] = "NetworkError" => (fetches[c] = 1 /\ response[c] = NoResponse)
    /\ failure[c] = "DecodeError" => (response[c] # NoResponse /\ ~Decoded(c).ok)
    /\ (pc[c] \in {"wrapper", "returned"} /\ failure[c] = "none") => Decoded(c).ok

\* C8 witness: one call rejected on a transport failure and another on a
\* body its decoder could not parse.
C8_Witness ==
  \E c, d \in Calls :
    /\ pc[c] = "rejected" /\ failure[c] = "NetworkError" /\ fetches[c] = 1
    /\ pc[d] = "rejected" /\ failure[d] = "DecodeError" /\ fetches[d] = 1

\* C9: when the raw input has a query key or a body key, whatever its value,
\* prepared query is the raw query value if the key is present and an empty
\* mapping otherwise, prepared body likewise, and no other field is routed.
C9_StructuredInput ==
  \A c \in Calls :
    (Assembled(c) /\ ~IsFlat(input[c])) =>
      /\ prepared[c].query =
           IF HasKey(input[c], "query") THEN Get(input[c], "query") ELSE Obj(<< >>)
      /\ prepared[c].body =
           IF HasKey(input[c], "body") THEN Get(input[c], "body") ELSE Obj(<< >>)

\* C10 as stated: an invocation suspends exactly once between its start and
\* its completion.
C10_SuspendsOnce ==
  \A c \in Calls : pc[c] = "returned" => suspensions[c] = 1

\* C10 as amended: an invocation that returns a result has suspended three
\* times: at the transport call, at the decoder call and at the wrapper's
\* await of the inner call.  Everything up to the request is done before the
\* first suspension, and the classification is made in the turn in which
\* the decoder resolves, not before.
C10_SuspensionPoints ==
  \A c \in Calls :
    /\ pc[c] = "fetch" =>
         /\ suspensions[c] = 1
         /\ prepared[c] # NoPrepared /\ request[c] # NoRequest
         /\ response[c] = NoResponse /\ result[c] = NoOutput
    /\ pc[c] = "decode" =>
         /\ suspensions[c] = 2
         /\ response[c] # NoResponse /\ result[c] = NoOutput
    /\ (pc[c] = "wrapper" /\ failure[c] = "none") =>
         /\ suspensions[c] = 3
         /\ result[c] # NoOutput
    /\ pc[c] = "returned" => suspensions[c] = 3

\* C10 witness: one invocation is suspended at its decoder while another,
\* started later or earlier, has returned after three suspensions.
C10_Witness ==
  \E c, d \in Calls :
    /\ pc[c] = "decode" /\ suspensions[c] = 2
    /\ pc[d] = "returned" /\ suspensions[d] = 3

=============================================================================
